---- MODULE Spec2Model ----
(***************************************************************************)
(* Model of src/public/convert-to-map.py: the script scans ./icons, keeps  *)
(* the regular files whose name ends in ".svg", derives an identifier from *)
(* each filename, stores the file text (minus a leading "<?xml" line)      *)
(* under that identifier in the dict `contents`, and hands                 *)
(* str(contents) with "'" and the two characters backslash-n deleted to    *)
(* the clipboard.                                                          *)
(*                                                                         *)
(* A Python str is modelled as a sequence of one-character strings.        *)
(***************************************************************************)
EXTENDS Integers, Sequences, FiniteSets

VARIABLES
    icons,      \* the directory ./icons: [exists, entries]
    pc,         \* position of the script: "scandir", "loop", "done", "aborted"
    idx,        \* index of the next directory entry os.scandir will yield
    contents,   \* the module-level dict, as a sequence of [key, value] in insertion order
    clip,       \* the texts handed to add_to_clipboard, in call order
    opened,     \* history: indices of the entries whose file was passed to open()
    filename,   \* argument of a stand-alone call of the identifier derivation
    derived     \* results of that call: <<>> before it, <<key(f), key(f + ".svg")>> after

vars == <<icons, pc, idx, contents, clip, opened, filename, derived>>

-----------------------------------------------------------------------------
(* Characters *)

LF == "\n"
CR == "\r"
Backslash == "\\"
Apostrophe == "'"
DoubleQuote == "\""

LowerChars ==
    <<"a","b","c","d","e","f","g","h","i","j","k","l","m",
      "n","o","p","q","r","s","t","u","v","w","x","y","z">>

UpperChars ==
    <<"A","B","C","D","E","F","G","H","I","J","K","L","M",
      "N","O","P","Q","R","S","T","U","V","W","X","Y","Z">>

\* str.upper on one ASCII character
ToUpper(c) ==
    IF \E i \in 1..Len(LowerChars) : LowerChars[i] = c
    THEN UpperChars[CHOOSE i \in 1..Len(LowerChars) : LowerChars[i] = c]
    ELSE c

\* str.lower on one ASCII character
ToLower(c) ==
    IF \E i \in 1..Len(UpperChars) : UpperChars[i] = c
    THEN LowerChars[CHOOSE i \in 1..Len(UpperChars) : UpperChars[i] = c]
    ELSE c

-----------------------------------------------------------------------------
(* Python str methods used by the script *)

StartsWith(s, prefix) ==
    /\ Len(s) >= Len(prefix)
    /\ SubSeq(s, 1, Len(prefix)) = prefix

EndsWith(s, suffix) ==
    /\ Len(s) >= Len(suffix)
    /\ SubSeq(s, Len(s) - Len(suffix) + 1, Len(s)) = suffix

\* RemoveSuffix as str.rstrip(suffix): drops every trailing character found in suffix
RECURSIVE RemoveSuffixChars(_, _)
RemoveSuffixChars(s, suffix) ==
    IF s # <<>> /\ \E i \in 1..Len(suffix) : suffix[i] = s[Len(s)]
    THEN RemoveSuffixChars(SubSeq(s, 1, Len(s) - 1), suffix)
    ELSE s

\* str.removesuffix: drops one trailing occurrence of suffix, if there is one
RemoveSuffix(s, suffix) ==
    IF suffix # <<>> /\ EndsWith(s, suffix)
    THEN SubSeq(s, 1, Len(s) - Len(suffix))
    ELSE s

\* str.split(sep) for a one-character separator: always at least one segment
RECURSIVE Split(_, _)
Split(s, sep) ==
    IF \E i \in 1..Len(s) : s[i] = sep
    THEN LET i == CHOOSE j \in 1..Len(s) :
                      s[j] = sep /\ \A k \in 1..(j - 1) : s[k] # sep
         IN  <<SubSeq(s, 1, i - 1)>> \o Split(SubSeq(s, i + 1, Len(s)), sep)
    ELSE <<s>>

\* Capitalize as s[:1].upper() + s[1:]: the other characters keep their case
CapitalizeFirstOnly(s) ==
    [i \in 1..Len(s) |-> IF i = 1 THEN ToUpper(s[i]) ELSE s[i]]

\* str.capitalize (ASCII): first character upper-cased, all the others lower-cased
Capitalize(s) ==
    [i \in 1..Len(s) |-> IF i = 1 THEN ToUpper(s[i]) ELSE ToLower(s[i])]

\* str.join("", parts)
RECURSIVE Join(_)
Join(parts) ==
    IF parts = <<>> THEN <<>> ELSE Head(parts) \o Join(Tail(parts))

\* str.replace(ch, "") for a one-character pattern
RemoveChar(s, ch) == SelectSeq(s, LAMBDA c : c # ch)

\* str.replace(a + b, "") for a two-character pattern, a # b: left to right,
\* non-overlapping, the result is not scanned again
RECURSIVE RemovePair(_, _, _)
RemovePair(s, a, b) ==
    IF Len(s) < 2 THEN s
    ELSE IF s[1] = a /\ s[2] = b
         THEN RemovePair(SubSeq(s, 3, Len(s)), a, b)
         ELSE <<s[1]>> \o RemovePair(Tail(s), a, b)

-----------------------------------------------------------------------------
(* Identifier derivation *)

SvgExt == <<".", "s", "v", "g">>

Dash == "-"

get_camel_case_name(name) ==
    LET stem  == RemoveSuffix(name, SvgExt)
        split == Split(stem, Dash)
    IN  Join([i \in 1..Len(split) |-> Capitalize(split[i])])

KeyPrefix == <<"[", "I", "c", "o", "n", "N", "a", "m", "e", ".">>

KeySuffix == <<"]">>

\* f"[IconName.{camel_case_name}]"
IconKey(name) == KeyPrefix \o get_camel_case_name(name) \o KeySuffix

-----------------------------------------------------------------------------
(* Reading a file: open(path, 'r'), readline, seek(0), read *)

\* Text mode with the default newline=None: "\r\n" and a lone "\r" are read as "\n"
RECURSIVE UniversalNewlines(_)
UniversalNewlines(raw) ==
    IF raw = <<>> THEN <<>>
    ELSE IF raw[1] = CR
         THEN IF Len(raw) >= 2 /\ raw[2] = LF
              THEN <<LF>> \o UniversalNewlines(SubSeq(raw, 3, Len(raw)))
              ELSE <<LF>> \o UniversalNewlines(Tail(raw))
         ELSE <<raw[1]>> \o UniversalNewlines(Tail(raw))

\* f.readline() at position pos (characters already consumed): the position after
\* it, just behind the next "\n", or the end of the text when there is none
ReadlineEnd(text, pos) ==
    IF \E i \in (pos + 1)..Len(text) : text[i] = LF
    THEN CHOOSE i \in (pos + 1)..Len(text) :
             text[i] = LF /\ \A k \in (pos + 1)..(i - 1) : text[k] # LF
    ELSE Len(text)

XmlMarker == <<"<", "?", "x", "m", "l">>

\* ReadStored without the f.seek(0): the first line is dropped whatever it holds
ReadStoredNoSeek(raw) ==
    LET text == UniversalNewlines(raw)
        eol  == ReadlineEnd(text, 0)
    IN  SubSeq(text, eol + 1, Len(text))

\* if f.readline().startswith("<?xml"): pass / else: f.seek(0); then f.read()
ReadStored(raw) ==
    LET text == UniversalNewlines(raw)
        eol  == ReadlineEnd(text, 0)
        line == SubSeq(text, 1, eol)
        pos  == IF StartsWith(line, XmlMarker) THEN eol ELSE 0
    IN  SubSeq(text, pos + 1, Len(text))

-----------------------------------------------------------------------------
(* The dict `contents` *)

HasKey(d, k) == \E i \in 1..Len(d) : d[i].key = k

\* DictSet as d.setdefault(k, v): an existing key keeps its value
DictSetKeepFirst(d, k, v) ==
    IF HasKey(d, k) THEN d ELSE Append(d, [key |-> k, value |-> v])

\* DictSet as del d[k]; d[k] = v: an existing key moves to the end
DictSetMoveToEnd(d, k, v) ==
    Append(SelectSeq(d, LAMBDA item : item.key # k), [key |-> k, value |-> v])

\* d[k] = v: a new key is appended, an existing key keeps its place
DictSet(d, k, v) ==
    IF HasKey(d, k)
    THEN [i \in 1..Len(d) |-> IF d[i].key = k THEN [key |-> k, value |-> v] ELSE d[i]]
    ELSE Append(d, [key |-> k, value |-> v])

-----------------------------------------------------------------------------
(* str(contents).replace("'", "").replace("\\n", "") *)

\* repr of a str picks double quotes when the text holds "'" and no '"'
ReprQuote(s) ==
    IF (\E i \in 1..Len(s) : s[i] = Apostrophe) /\ ~(\E i \in 1..Len(s) : s[i] = DoubleQuote)
    THEN DoubleQuote
    ELSE Apostrophe

ReprChar(c, quote) ==
    IF c = quote \/ c = Backslash THEN <<Backslash, c>>
    ELSE IF c = LF THEN <<Backslash, "n">>
    ELSE IF c = CR THEN <<Backslash, "r">>
    ELSE <<c>>

ReprStr(s) ==
    LET quote == ReprQuote(s)
    IN  <<quote>> \o Join([i \in 1..Len(s) |-> ReprChar(s[i], quote)]) \o <<quote>>

ReprItem(item) == ReprStr(item.key) \o <<":", " ">> \o ReprStr(item.value)

\* JoinComma with a comma after every item, the last included
RECURSIVE JoinCommaTrailing(_)
JoinCommaTrailing(items) ==
    IF items = <<>> THEN <<>>
    ELSE items[1] \o <<",">> \o JoinCommaTrailing(Tail(items))

\* ", ".join(items)
RECURSIVE JoinComma(_)
JoinComma(items) ==
    IF items = <<>> THEN <<>>
    ELSE IF Len(items) = 1 THEN items[1]
    ELSE items[1] \o <<",", " ">> \o JoinComma(Tail(items))

\* str(dict)
ReprDict(d) ==
    <<"{">> \o JoinComma([i \in 1..Len(d) |-> ReprItem(d[i])]) \o <<"}">>

\* Serialize without .replace("\\n", "")
SerializeKeepNewlines(d) == RemoveChar(ReprDict(d), Apostrophe)

\* Serialize without .replace("'", "")
SerializeKeepApostrophes(d) == RemovePair(ReprDict(d), Backslash, "n")

Serialize(d) == RemovePair(RemoveChar(ReprDict(d), Apostrophe), Backslash, "n")

-----------------------------------------------------------------------------
(* The directory ./icons *)

\* What os.scandir can yield under one name: a non-file (a sub-directory), a file
\* that cannot be opened or decoded, or a readable file with one of the texts
EntryChoices(names, texts) ==
    {[name |-> n, isFile |-> FALSE, readable |-> TRUE, raw |-> <<>>] : n \in names}
    \cup {[name |-> n, isFile |-> TRUE, readable |-> FALSE, raw |-> <<>>] : n \in names}
    \cup {[name |-> n, isFile |-> TRUE, readable |-> TRUE, raw |-> t] : n \in names, t \in texts}

\* Directory listings of at most n entries, in any order; names are unique
Listings(choices, n) ==
    {l \in UNION {[1..k -> choices] : k \in 0..n} :
        \A i, j \in 1..Len(l) : i # j => l[i].name # l[j].name}

MissingDir == [exists |-> FALSE, entries |-> <<>>]

Dir(listing) == [exists |-> TRUE, entries |-> listing]

MaxEntries == 3

ScanNames ==
    { <<"a", "-", "b", ".", "s", "v", "g">>,
      <<"a", "-", "-", "b", ".", "s", "v", "g">>,
      <<"c", ".", "s", "v", "g">>,
      <<"a", "-", "b", ".", "S", "V", "G">>,
      <<"c", ".", "p", "n", "g">> }

ScanTexts ==
    { <<"<", "?", "x", "m", "l", "?", ">", LF, "<", "p", "/", ">">>,
      <<"<", "q", "/", ">", CR, LF, "<", "r", "/", ">">> }

-----------------------------------------------------------------------------
(* The script *)

StartOfScript ==
    /\ pc = "scandir"
    /\ idx = 1
    /\ contents = <<>>
    /\ clip = <<>>
    /\ opened = {}
    /\ filename = <<>>
    /\ derived = <<>>

Init ==
    /\ icons \in {MissingDir} \cup {Dir(l) : l \in Listings(EntryChoices(ScanNames, ScanTexts), MaxEntries)}
    /\ StartOfScript

\* os.scandir('./icons') raises FileNotFoundError: the script ends with a traceback
ScanDirMissing ==
    /\ pc = "scandir"
    /\ ~icons.exists
    /\ pc' = "aborted"
    /\ UNCHANGED <<icons, idx, contents, clip, opened, filename, derived>>

ScanDirOpen ==
    /\ pc = "scandir"
    /\ icons.exists
    /\ pc' = "loop"
    /\ UNCHANGED <<icons, idx, contents, clip, opened, filename, derived>>

InLoop == pc = "loop" /\ idx <= Len(icons.entries)

\* Accepted with the extension compared without regard to case
AcceptedAnyCase(e) ==
    e.isFile /\ EndsWith([i \in 1..Len(e.name) |-> ToLower(e.name[i])], SvgExt)

\* the two filters of the loop body both let the entry through
Accepted(e) == e.isFile /\ EndsWith(e.name, SvgExt)

\* if not file.is_file(): continue
SkipNotFile ==
    /\ InLoop
    /\ ~icons.entries[idx].isFile
    /\ idx' = idx + 1
    /\ UNCHANGED <<icons, pc, contents, clip, opened, filename, derived>>

\* if not filename.endswith('.svg'): continue
SkipNotSvg ==
    /\ InLoop
    /\ icons.entries[idx].isFile
    /\ ~Accepted(icons.entries[idx])
    /\ idx' = idx + 1
    /\ UNCHANGED <<icons, pc, contents, clip, opened, filename, derived>>

\* ReadFails with a per-file except/continue: the file is skipped, the scan goes on
ReadFailsSkipped ==
    /\ InLoop
    /\ icons.entries[idx].isFile
    /\ EndsWith(icons.entries[idx].name, SvgExt)
    /\ ~icons.entries[idx].readable
    /\ opened' = opened \cup {idx}
    /\ idx' = idx + 1
    /\ UNCHANGED <<icons, pc, contents, clip, filename, derived>>

\* open, readline or read raises (OSError, UnicodeDecodeError): nothing catches it
ReadFails ==
    /\ InLoop
    /\ Accepted(icons.entries[idx])
    /\ ~icons.entries[idx].readable
    /\ opened' = opened \cup {idx}
    /\ pc' = "aborted"
    /\ UNCHANGED <<icons, idx, contents, clip, filename, derived>>

\* contents[f"[IconName.{camel_case_name}]"] = f.read()
StoreFile ==
    /\ InLoop
    /\ Accepted(icons.entries[idx])
    /\ icons.entries[idx].readable
    /\ opened' = opened \cup {idx}
    /\ contents' = DictSet(contents, IconKey(icons.entries[idx].name),
                           ReadStored(icons.entries[idx].raw))
    /\ idx' = idx + 1
    /\ UNCHANGED <<icons, pc, clip, filename, derived>>

ScanOver == pc = "loop" /\ idx > Len(icons.entries)

\* add_to_clipboard(str(contents).replace("'", "").replace("\\n", ""))
AddToClipboard ==
    /\ ScanOver
    /\ clip' = Append(clip, Serialize(contents))
    /\ pc' = "done"
    /\ UNCHANGED <<icons, idx, contents, opened, filename, derived>>

\* subprocess.run('clip', ...) raises: no such program on this machine
ClipFails ==
    /\ ScanOver
    /\ pc' = "aborted"
    /\ UNCHANGED <<icons, idx, contents, clip, opened, filename, derived>>

Next ==
    \/ ScanDirMissing
    \/ ScanDirOpen
    \/ SkipNotFile
    \/ SkipNotSvg
    \/ ReadFails
    \/ StoreFile
    \/ AddToClipboard
    \/ ClipFails

Spec == Init /\ [][Next]_vars

-----------------------------------------------------------------------------
(* The identifier derivation on its own: one call on any filename *)

Strings(chars, n) == UNION {[1..k -> chars] : k \in 0..n}

MaxStemLen == 3

StemChars == {"a", "B", "-", "."}

NameSuffixes ==
    { <<>>,
      <<".", "s", "v", "g">>,
      <<".", "S", "V", "G">>,
      <<".", "s", "v", "g", ".", "s", "v", "g">> }

AlphaBetaSvg == <<"a", "l", "p", "h", "a", "-", "b", "e", "t", "a", ".", "s", "v", "g">>

AlreadyUpperSvg == <<"a", "l", "r", "e", "a", "d", "y", "-", "U", "P", "P", "E", "R", ".", "s", "v", "g">>

DeriveNames ==
    {stem \o suffix : stem \in Strings(StemChars, MaxStemLen), suffix \in NameSuffixes}
    \cup {AlphaBetaSvg, AlreadyUpperSvg}

InitDerive ==
    /\ icons = MissingDir
    /\ pc = "call"
    /\ idx = 1
    /\ contents = <<>>
    /\ clip = <<>>
    /\ opened = {}
    /\ filename \in DeriveNames
    /\ derived = <<>>

\* the key built from filename, and the key built from filename + ".svg"
Derive ==
    /\ pc = "call"
    /\ derived' = <<IconKey(filename), IconKey(filename \o SvgExt)>>
    /\ pc' = "returned"
    /\ UNCHANGED <<icons, idx, contents, clip, opened, filename>>

NextDerive == Derive

SpecDerive == InitDerive /\ [][NextDerive]_vars

-----------------------------------------------------------------------------
(* The script on a directory holding one .svg file with any text *)

MaxPieces == 2

Fragments ==
    { <<>>,
      <<"<", "?", "x", "m", "l">>,
      <<"<", "?", "x", "m">>,
      <<"l", ">">>,
      <<"<", "a", "/", ">">> }

LineEnds == {<<>>, <<LF>>, <<CR, LF>>, <<CR>>}

Pieces == {f \o e : f \in Fragments, e \in LineEnds}

\* the texts made of at most n pieces
RECURSIVE Texts(_)
Texts(n) ==
    IF n = 0 THEN {<<>>}
    ELSE Texts(n - 1) \cup {t \o piece : t \in Texts(n - 1), piece \in Pieces}

OneFile(name, text) == <<[name |-> name, isFile |-> TRUE, readable |-> TRUE, raw |-> text]>>

InitRead ==
    /\ icons \in {Dir(OneFile(<<"c", ".", "s", "v", "g">>, t)) : t \in Texts(MaxPieces)}
    /\ StartOfScript

NextRead ==
    \/ ScanDirOpen
    \/ StoreFile
    \/ AddToClipboard

SpecRead == InitRead /\ [][NextRead]_vars

-----------------------------------------------------------------------------
(* The script on a directory holding one .svg file with any content, alone or
   with a fixed file scanned before it, after it, or both *)

MaxValueLen == 3

ValueChars == {"n", Apostrophe, DoubleQuote, Backslash, LF}

SerNames ==
    { <<"c", ".", "s", "v", "g">>,
      <<"d", "'", "e", ".", "s", "v", "g">> }

FileBefore ==
    OneFile(<<"a", "-", "b", ".", "s", "v", "g">>, <<"<", "p", "/", ">", LF, "<", "q", "/", ">">>)

FileAfter ==
    OneFile(<<"z", ".", "s", "v", "g">>, <<"<", "r", "/", ">">>)

InitSer ==
    /\ icons \in {Dir(before \o OneFile(name, text) \o after) :
                     before \in {<<>>, FileBefore},
                     after \in {<<>>, FileAfter},
                     name \in SerNames,
                     text \in Strings(ValueChars, MaxValueLen)}
    /\ StartOfScript

NextSer ==
    \/ ScanDirOpen
    \/ StoreFile
    \/ AddToClipboard

SpecSer == InitSer /\ [][NextSer]_vars

-----------------------------------------------------------------------------
(* Vocabulary of the properties *)

Entries == icons.entries

\* the name ends in exactly ".svg"
EndsDotSvg(name) ==
    /\ Len(name) >= 4
    /\ name[Len(name) - 3] = "."
    /\ name[Len(name) - 2] = "s"
    /\ name[Len(name) - 1] = "v"
    /\ name[Len(name)] = "g"

\* a regular file whose name ends in exactly ".svg"
IsRegularSvg(e) == e.isFile /\ EndsDotSvg(e.name)

SvgFiles == {i \in 1..Len(Entries) : IsRegularSvg(Entries[i])}

\* the accepted files the loop has gone past
Scanned == {i \in SvgFiles : i < idx}

KeyOf(i) == IconKey(Entries[i].name)

\* among the scanned accepted files that derive to key k, the last and the first
LastWith(k) == CHOOSE i \in Scanned : KeyOf(i) = k /\ \A j \in Scanned : KeyOf(j) = k => j <= i

FirstWith(k) == CHOOSE i \in Scanned : KeyOf(i) = k /\ \A j \in Scanned : KeyOf(j) = k => i <= j

Delivered == pc = "done"

\* index of the first occurrence of pattern in text, 0 when there is none
Find(text, pattern) ==
    LET hits == {i \in 1..(Len(text) - Len(pattern) + 1) :
                    SubSeq(text, i, i + Len(pattern) - 1) = pattern}
    IN  IF hits = {} THEN 0 ELSE CHOOSE i \in hits : \A j \in hits : i <= j

-----------------------------------------------------------------------------
(* C1: all-or-nothing delivery.  add_to_clipboard is called at most once, and
   only when the directory exists, every entry has been scanned and every
   accepted file has been opened and read; a missing directory or one
   unreadable accepted file leaves the clipboard unset for good, and the scan
   never moves past an unreadable accepted file. *)
C1_AllOrNothing ==
    /\ Len(clip) <= 1
    /\ clip # <<>> =>
          /\ Delivered
          /\ icons.exists
          /\ idx = Len(Entries) + 1
          /\ opened = SvgFiles
          /\ \A i \in SvgFiles : Entries[i].readable
    /\ (~icons.exists \/ pc = "aborted") => clip = <<>>
    /\ \A i \in SvgFiles : ~Entries[i].readable => idx <= i /\ ~Delivered

\* the run stopped at an unreadable file with a partial map built, nothing delivered
C1_Witness ==
    /\ pc = "aborted"
    /\ contents # <<>>
    /\ idx \in SvgFiles
    /\ ~Entries[idx].readable
    /\ \E i \in SvgFiles : i > idx

(* C6: the scan filter.  Every key of the map is derived from a scanned entry
   that is a regular file named *.svg, only such entries are ever opened, and the
   step over any other entry leaves the map untouched. *)
C6_KeysFromSvgFiles ==
    /\ \A p \in 1..Len(contents) : \E i \in Scanned : contents[p].key = KeyOf(i)
    /\ opened \subseteq SvgFiles

\* C6, the step over an entry that is not a regular *.svg file
C6_RejectedChangeNothing ==
    (InLoop /\ idx \notin SvgFiles) => (contents' = contents /\ opened' = opened)

(* C6, whole: the invariant above at every point of the scan, and every step
   over a rejected entry changing neither the map nor the set of opened files. *)
C6_ScanFilter == []C6_KeysFromSvgFiles /\ [][C6_RejectedChangeNothing]_vars

\* a directory and a file named *.SVG were stepped over, a *.svg file was stored
C6_Witness ==
    /\ Delivered
    /\ Len(contents) = 1
    /\ \E i, j \in 1..Len(Entries) :
          /\ ~Entries[i].isFile /\ EndsWith(Entries[i].name, SvgExt)
          /\ Entries[j].isFile /\ Entries[j].readable
          /\ EndsWith(Entries[j].name, <<".", "S", "V", "G">>)

(* C8: last scanned wins.  At every point of the scan the map holds exactly one
   entry per identifier derived from the accepted files scanned so far, and
   its value is the stored content of the last of them. *)
C8_LastScannedWins ==
    /\ \A i \in Scanned : \E p \in 1..Len(contents) : contents[p].key = KeyOf(i)
    /\ \A p, q \in 1..Len(contents) : contents[p].key = contents[q].key => p = q
    /\ \A p \in 1..Len(contents) :
          /\ \E i \in Scanned : KeyOf(i) = contents[p].key
          /\ contents[p].value = ReadStored(Entries[LastWith(contents[p].key)].raw)
    /\ Len(contents) = Cardinality({KeyOf(i) : i \in Scanned})

\* two files with different stored contents collided and the map was delivered
C8_Witness ==
    /\ Delivered
    /\ \E i, j \in Scanned :
          /\ i < j
          /\ KeyOf(i) = KeyOf(j)
          /\ ReadStored(Entries[i].raw) # ReadStored(Entries[j].raw)

(* C9 as stated: map order, and the order of the keys in the delivered text, is
   the scan order of the files whose content each entry holds. *)
C9_OrderOfStoredContent ==
    Delivered =>
        \A p, q \in 1..Len(contents) :
            p < q => LastWith(contents[p].key) < LastWith(contents[q].key)

(* C9 amended: map order, and the order of the keys in the delivered text, is
   the scan order of the first accepted file deriving to each identifier; an
   overwritten entry keeps its place. *)
C9_OrderOfFirstInsertion ==
    /\ \A p, q \in 1..Len(contents) :
          p < q => FirstWith(contents[p].key) < FirstWith(contents[q].key)
    /\ Delivered =>
          \A p, q \in 1..Len(contents) :
              p < q => /\ Find(clip[1], contents[p].key) > 0
                       /\ Find(clip[1], contents[p].key) < Find(clip[1], contents[q].key)

\* an entry overwritten by the last scanned file still precedes a later key
C9_Witness ==
    /\ Delivered
    /\ \E p, q \in 1..Len(contents) :
          p < q /\ LastWith(contents[p].key) > LastWith(contents[q].key)

-----------------------------------------------------------------------------
(* Properties of the identifier derivation *)

Returned == pc = "returned"

InKey(body) == KeyPrefix \o body \o KeySuffix

\* the name without one trailing ".svg"
Stem(name) == IF EndsDotSvg(name) THEN SubSeq(name, 1, Len(name) - 4) ELSE name

\* the places of a text that hold no '-', in order
Letters(text) == SelectSeq([i \in 1..Len(text) |-> i], LAMBDA i : text[i] # "-")

\* place i starts a '-'-separated segment
StartsSegment(text, i) == i = 1 \/ text[i - 1] = "-"

(* C3 as stated: the first character of each segment is upper-cased and the
   others keep their case; already-UPPER.svg gives [IconName.AlreadyUPPER]. *)
C3_RestKeepsCase ==
    Returned =>
        LET stem == Stem(filename)
            at   == Letters(stem)
        IN  /\ derived[1] = InKey([k \in 1..Len(at) |->
                                IF StartsSegment(stem, at[k])
                                THEN ToUpper(stem[at[k]])
                                ELSE stem[at[k]]])
            /\ filename = AlreadyUpperSvg => derived[1] = InKey(<<"A", "l", "r", "e", "a", "d", "y", "U", "P", "P", "E", "R">>)

(* C3 amended: the first character of each segment is upper-cased and every
   other character of the segment is lower-cased; already-UPPER.svg gives
   [IconName.AlreadyUpper]. *)
C3_RestLowerCased ==
    Returned =>
        LET stem == Stem(filename)
            at   == Letters(stem)
        IN  /\ derived[1] = InKey([k \in 1..Len(at) |->
                                IF StartsSegment(stem, at[k])
                                THEN ToUpper(stem[at[k]])
                                ELSE ToLower(stem[at[k]])])
            /\ filename = AlreadyUpperSvg => derived[1] = InKey(<<"A", "l", "r", "e", "a", "d", "y", "U", "p", "p", "e", "r">>)

\* the example of the claim was derived
C3_Witness ==
    /\ Returned
    /\ filename = AlreadyUpperSvg
    /\ derived[1] = InKey(<<"A", "l", "r", "e", "a", "d", "y", "U", "p", "p", "e", "r">>)

\* capitalised segments of a text, concatenated, with nothing stripped
Camel(text) ==
    LET split == Split(text, Dash)
    IN  Join([i \in 1..Len(split) |-> Capitalize(split[i])])

(* C7: extension stripping.  For a filename f that does not end in ".svg" the
   key of f + ".svg" is the key of f; a filename that ends in ".svg" loses
   exactly those four characters and nothing else before its segments are
   capitalised; alpha-beta.svg gives [IconName.AlphaBeta] and the empty name
   gives [IconName.]. *)
C7_ExtensionStripping ==
    Returned =>
        /\ ~EndsDotSvg(filename) => derived[2] = derived[1]
        /\ derived[1] = InKey(Camel(Stem(filename)))
        /\ derived[2] = InKey(Camel(filename))
        /\ filename = AlphaBetaSvg => derived[1] = InKey(<<"A", "l", "p", "h", "a", "B", "e", "t", "a">>)
        /\ filename = <<>> => derived[1] = InKey(<<>>)

\* a name ending in ".SVG", which is not the extension, was derived both ways
C7_Witness ==
    /\ Returned
    /\ EndsWith(filename, <<".", "S", "V", "G">>)
    /\ \E i \in 1..Len(filename) : filename[i] = "-"
    /\ derived[2] = derived[1]

-----------------------------------------------------------------------------
(* Properties of the stored content *)

\* the text begins with the five characters <?xml
BeginsXml(text) ==
    /\ Len(text) >= 5
    /\ text[1] = "<" /\ text[2] = "?" /\ text[3] = "x" /\ text[4] = "m" /\ text[5] = "l"

LineBreaks(text) == {i \in 1..Len(text) : text[i] = LF}

\* value is what follows the first line break of text, or empty when there is none
IsRestAfterFirstLine(value, text) ==
    IF LineBreaks(text) = {}
    THEN value = <<>>
    ELSE \E k \in LineBreaks(text) :
            /\ \A j \in LineBreaks(text) : k <= j
            /\ value = SubSeq(text, k + 1, Len(text))

(* C2: header stripping.  The content stored for an accepted file is the file's
   text (as read in text mode) without its first line when that line begins with
   "<?xml" - empty if the file has no other line - and the whole text otherwise;
   "<?xml" at the start of a later line removes nothing. *)
C2_HeaderStripping ==
    \A p \in 1..Len(contents) :
        (\E i \in Scanned : KeyOf(i) = contents[p].key) =>
            LET text == UniversalNewlines(Entries[LastWith(contents[p].key)].raw)
            IN  IF BeginsXml(text)
                THEN IsRestAfterFirstLine(contents[p].value, text)
                ELSE contents[p].value = text

\* a header line was dropped and the next line, which also begins with <?xml, was kept
C2_Witness ==
    /\ Len(contents) = 1
    /\ Scanned # {}
    /\ BeginsXml(UniversalNewlines(Entries[1].raw))
    /\ BeginsXml(contents[1].value)
    /\ Len(contents[1].value) < Len(UniversalNewlines(Entries[1].raw))

-----------------------------------------------------------------------------
(* Properties of the delivered text *)

Has(text, ch) == \E i \in 1..Len(text) : text[i] = ch

\* what is left of one key or value once it is quoted, escaped and filtered alone
Rendered(text) == RemovePair(RemoveChar(ReprStr(text), Apostrophe), Backslash, "n")

Piece(item) == Rendered(item.key) \o <<":", " ">> \o Rendered(item.value)

\* the pieces with ", " between them and nothing after the last
RECURSIVE Separated(_)
Separated(pieces) ==
    IF pieces = <<>> THEN <<>>
    ELSE IF Len(pieces) = 1 THEN pieces[1]
    ELSE pieces[1] \o <<",", " ">> \o Separated(Tail(pieces))

Quoted(text) == text # <<>> /\ (text[1] \in {Apostrophe, DoubleQuote}
                                \/ text[Len(text)] \in {Apostrophe, DoubleQuote})

(* C4 as stated: every entry of the delivered text, the last included, ends in
   a comma, and no identifier is surrounded by quote characters. *)
C4_EveryEntryEndsInComma ==
    Delivered =>
        /\ contents # <<>> => clip[1][Len(clip[1]) - 1] = ","
        /\ \A p \in 1..Len(contents) : ~Quoted(Rendered(contents[p].key))

(* C4 amended: the delivered text is "{", then one piece `<key>: <value>` per
   entry in map order with ", " between consecutive pieces and no comma after the
   last, then "}"; an identifier is never surrounded by apostrophes, it appears
   bare when it holds no apostrophe and otherwise in double quotes with its
   apostrophes deleted. *)
C4_SerializationShape ==
    Delivered =>
        /\ clip[1] = <<"{">> \o Separated([p \in 1..Len(contents) |-> Piece(contents[p])])
                        \o <<"}">>
        /\ \A p \in 1..Len(contents) :
              LET key == contents[p].key
              IN  /\ ~Has(Rendered(key), Apostrophe)
                  /\ ~Has(key, Apostrophe) => Rendered(key) = key
                  /\ Has(key, Apostrophe) =>
                        Rendered(key) = <<DoubleQuote>> \o RemoveChar(key, Apostrophe)
                                            \o <<DoubleQuote>>

\* three entries were delivered, one under an identifier that holds an apostrophe
C4_Witness ==
    /\ Delivered
    /\ Len(contents) = 3
    /\ Has(contents[2].key, Apostrophe)
    /\ contents[2].value # <<>>

Mark == "#"

\* the map with every line break of every value replaced by the mark
Marked(d) ==
    [p \in 1..Len(d) |->
        [key   |-> d[p].key,
         value |-> [i \in 1..Len(d[p].value) |->
                       IF d[p].value[i] = LF THEN Mark ELSE d[p].value[i]]]]

(* C5: newline removal.  The delivered text holds no newline character, and it
   is the text the same map would give if each line break of each value were an
   ordinary character that is deleted afterwards: a line break leaves nothing
   behind, neither a space nor any other character. *)
C5_NewlinesCollapse ==
    Delivered =>
        /\ ~Has(clip[1], LF)
        /\ clip[1] = RemoveChar(Serialize(Marked(contents)), Mark)

\* a value with a backslash right before a line break and an n right after it
C5_Witness ==
    /\ Delivered
    /\ \E p \in 1..Len(contents) :
          /\ Len(contents[p].value) = 3
          /\ contents[p].value[1] = Backslash
          /\ contents[p].value[2] = LF
          /\ contents[p].value[3] = "n"

(* C10: apostrophes are lost.  The delivered text holds no apostrophe, whatever
   the identifiers and the contents hold; the piece of the text that renders a
   value is that value character for character only when the value holds no
   apostrophe, no line break and no character that repr escapes. *)
C10_ApostrophesDeleted ==
    Delivered =>
        /\ ~Has(clip[1], Apostrophe)
        /\ \A p \in 1..Len(contents) :
              LET value == contents[p].value
              IN  Rendered(value) = value
                  => /\ ~Has(value, Apostrophe)
                     /\ ~Has(value, LF)
                     /\ ~Has(value, Backslash)

\* an identifier and a value that both hold an apostrophe were delivered
C10_Witness ==
    /\ Delivered
    /\ \E p \in 1..Len(contents) :
          /\ Has(contents[p].key, Apostrophe)
          /\ Has(contents[p].value, Apostrophe)
          /\ Has(contents[p].value, DoubleQuote)

====
